---- MODULE Spec2Model ----
(***************************************************************************)
(* State-machine model of codemap.py (class CodeMap): the stats cache,     *)
(* the directory scan, the .ignore editor and the key-driven event loop.   *)
(* The external collaborators (the scc process, the terminal, the          *)
(* filesystem) are inputs drawn from small sets.                           *)
(***************************************************************************)
EXTENDS Integers, Sequences, FiniteSets, TLC

VARIABLES
    stats_cache,      \* self.stats_cache: str(path) -> FileStats
    current_path,     \* self.current_path
    scroll_position,  \* self.scroll_position
    selected_index,   \* self.selected_index
    entries,          \* self.entries: list of (name, FileStats)
    status_message,   \* local of run()
    status_timeout,   \* local of run()
    height,           \* local of run(): stdscr.getmaxyx() of the last cycle
    pc,               \* position of run(): "start", "loop", "done", "crashed"
    ignore_files,     \* filesystem: the .ignore file of every directory
    failed,           \* history: paths that scc gave no data for since the cache was last emptied
    recount           \* history: scc was run again on a path since the cache was last emptied

vars == <<stats_cache, current_path, scroll_position, selected_index, entries,
          status_message, status_timeout, height, pc, ignore_files, failed, recount>>

----------------------------------------------------------------------------
(* Bounds of the model *)

MaxIgnoreLines == 2   \* most lines the model lets a .ignore file grow to

----------------------------------------------------------------------------
(* Names and paths.  A name is a sequence of characters, a path a sequence *)
(* of names; the filesystem root is the empty path.                        *)

Dot == <<".">>
DotDot == <<".", ".">>
IgnoreName == <<".", "i", "g", "n", "o", "r", "e">>
NameA == <<"a">>                 \* a subdirectory of the root
NameB == <<" ", "b">>            \* a plain file whose name starts with a blank

Root == <<>>
DirA == <<NameA>>
Dirs == {Root, DirA}

\* the children of a directory other than its .ignore file (a is empty)
StaticChildren(dir) == IF dir = Root THEN <<NameB, NameA>> ELSE <<>>

Paths ==
    UNION {{d} \cup {Append(d, StaticChildren(d)[i]) : i \in 1..Len(StaticChildren(d))}
               \cup {Append(d, IgnoreName)} : d \in Dirs}

\* pathlib: path.parent (the root is its own parent)
Parent(path) == IF path = Root THEN Root ELSE SubSeq(path, 1, Len(path) - 1)

\* pathlib: path / name ("." components are dropped by pathlib)
Join(path, name) == IF name = Dot THEN path ELSE Append(path, name)

\* pathlib: path.is_dir()
IsDir(path) == path \in Dirs

\* os.scandir(path): the names of the direct children, in iteration order
\* (on a path that is no directory it raises, see Arranged)
ScanDir(files, dir) ==
    IF IsDir(dir) /\ files[dir].exists THEN Append(StaticChildren(dir), IgnoreName)
    ELSE StaticChildren(dir)

----------------------------------------------------------------------------
(* FileStats *)

FileStats(l, c, b, m) ==
    [lines |-> l, code_lines |-> c, blank_lines |-> b, comment_lines |-> m]

ZeroStats == FileStats(0, 0, 0, 0)

\* FileStats.add
add(self, other) ==
    FileStats(self.lines + other.lines,
              self.code_lines + other.code_lines,
              self.blank_lines + other.blank_lines,
              self.comment_lines + other.comment_lines)

----------------------------------------------------------------------------
(* The scc process.  One invocation either cannot be started, or returns   *)
(* an exit code and a stdout that is blank, unparsable, or a JSON list of  *)
(* per-language records.                                                   *)

Lang1 == [Lines |-> 2, Code |-> 1, Blank |-> 1, Comment |-> 0]
Lang2 == [Lines |-> 3, Code |-> 2, Blank |-> 0, Comment |-> 1]

Stdout(kind, data) == [kind |-> kind, data |-> data]
CallResult(exc, rc, out) == [exc |-> exc, returncode |-> rc, stdout |-> out]

ToolMissing == CallResult(TRUE, 0, Stdout("blank", <<>>))     \* FileNotFoundError
NonZeroExit == CallResult(FALSE, 1, Stdout("blank", <<>>))
EmptyOutput == CallResult(FALSE, 0, Stdout("blank", <<>>))
Malformed   == CallResult(FALSE, 0, Stdout("garbage", <<>>))
JsonNone    == CallResult(FALSE, 0, Stdout("json", <<>>))     \* "[]" or "null"
JsonOne     == CallResult(FALSE, 0, Stdout("json", <<Lang1>>))
JsonTwo     == CallResult(FALSE, 0, Stdout("json", <<Lang1, Lang2>>))

\* the for loop of count_file_lines: fold the records into result
RECURSIVE FoldLangs(_, _)
FoldLangs(result, data) ==
    IF data = <<>> THEN result
    ELSE LET lang_stat == Head(data)
             stats == FileStats(lang_stat.Lines, lang_stat.Code,
                                lang_stat.Blank, lang_stat.Comment)
         IN FoldLangs(add(result, stats), Tail(data))

\* the condition under which count_file_lines parses stdout
HasData(call_result) ==
    call_result.returncode = 0 /\ call_result.stdout.kind # "blank"

\* what count_file_lines stores in the cache after a call of scc
CacheAfterCall(cache, file_path, call_result, result) ==
    IF HasData(call_result)
    THEN [p \in DOMAIN cache \cup {file_path} |-> IF p = file_path THEN result ELSE cache[p]]
    ELSE cache

\* self.stats_cache = {}
EmptyCache == [p \in {} |-> ZeroStats]

\* count_file_lines: raised = an exception leaves the method,
\* invoked = scc was run, nodata = scc ran and gave nothing to parse
count_file_lines(cache, file_path, call_result) ==
    IF file_path \in DOMAIN cache
    THEN [raised |-> FALSE, result |-> cache[file_path], cache |-> cache,
          invoked |-> FALSE, nodata |-> FALSE]
    ELSE IF call_result.exc
    THEN [raised |-> TRUE, result |-> ZeroStats, cache |-> cache,
          invoked |-> TRUE, nodata |-> FALSE]
    ELSE IF HasData(call_result) /\ call_result.stdout.kind = "garbage"
    THEN [raised |-> TRUE, result |-> ZeroStats, cache |-> cache,
          invoked |-> TRUE, nodata |-> FALSE]
    ELSE LET result == IF HasData(call_result)
                       THEN FoldLangs(ZeroStats, call_result.stdout.data)
                       ELSE ZeroStats
         IN [raised |-> FALSE, result |-> result,
             cache |-> CacheAfterCall(cache, file_path, call_result, result),
             invoked |-> TRUE, nodata |-> ~HasData(call_result)]

----------------------------------------------------------------------------
(* scan_directory *)

Entry(name, stats) == [name |-> name, stats |-> stats]

\* the paths scan_directory counts, in call order: the directory, then the
\* children that os.scandir names
ItemsOf(path, names) ==
    <<[name |-> Dot, path |-> path]>> \o
    [i \in 1..Len(names) |-> [name |-> names[i], path |-> Append(path, names[i])]]

ScanItems(files, path) == ItemsOf(path, ScanDir(files, path))

PathsOf(items) == {items[i].path : i \in 1..Len(items)}

ScanPaths(files, path) == PathsOf(ScanItems(files, path))

\* the result of scc for p (not consulted when p is cached)
ResultFor(out, p) == IF p \in DOMAIN out THEN out[p] ELSE EmptyOutput

\* one "self.entries.append((name, self.count_file_lines(path)))": r is what
\* count_file_lines gave for item
Appended(acc, item, r) ==
    [raised  |-> r.raised,
     cache   |-> r.cache,
     entries |-> IF r.raised THEN acc.entries
                 ELSE Append(acc.entries, Entry(item.name, r.result)),
     invoked |-> IF r.invoked THEN acc.invoked \cup {item.path} ELSE acc.invoked,
     nodata  |-> IF r.nodata THEN acc.nodata \cup {item.path} ELSE acc.nodata]

\* the appends of scan_directory, until one raises; out gives the result of
\* scc for each path
RECURSIVE ScanLoop(_, _, _)
ScanLoop(items, out, acc) ==
    IF items = <<>> \/ acc.raised THEN acc
    ELSE ScanLoop(Tail(items), out,
                  Appended(acc, Head(items),
                           count_file_lines(acc.cache, Head(items).path,
                                            ResultFor(out, Head(items).path))))

\* a sort that is not stable: an element goes before its equals
RECURSIVE InsertByCode_Unstable(_, _)
InsertByCode_Unstable(sorted, e) ==
    IF sorted = <<>> THEN <<e>>
    ELSE IF Head(sorted).stats.code_lines > e.stats.code_lines
         THEN <<Head(sorted)>> \o InsertByCode_Unstable(Tail(sorted), e)
         ELSE <<e>> \o sorted

\* list.sort(key=code_lines, reverse=True) is stable: an element goes
\* behind every element whose key is greater or equal
RECURSIVE InsertByCode(_, _)
InsertByCode(sorted, e) ==
    IF sorted = <<>> THEN <<e>>
    ELSE IF Head(sorted).stats.code_lines >= e.stats.code_lines
         THEN <<Head(sorted)>> \o InsertByCode(Tail(sorted), e)
         ELSE <<e>> \o sorted

RECURSIVE SortByCode(_, _)
SortByCode(sorted, rest) ==
    IF rest = <<>> THEN sorted
    ELSE SortByCode(InsertByCode(sorted, Head(rest)), Tail(rest))

\* "if path != path.parent: self.entries.insert(0, ("..", FileStats()))"
WithParent_Always(path, sorted) == <<Entry(DotDot, ZeroStats)>> \o sorted

WithParent(path, sorted) ==
    IF path # Parent(path) THEN <<Entry(DotDot, ZeroStats)>> \o sorted ELSE sorted

\* the tail of scan_directory: sort, then the parent link
Arrange(path, appended) == WithParent(path, SortByCode(<<>>, appended))

\* scan_directory once its appends r are done (or one of them, or os.scandir,
\* has raised)
Arranged(path, r) ==
    [raised  |-> r.raised \/ ~IsDir(path),
     cache   |-> r.cache,
     entries |-> IF r.raised \/ ~IsDir(path) THEN r.entries ELSE Arrange(path, r.entries),
     invoked |-> r.invoked,
     nodata  |-> r.nodata]

scan_directory(cache, files, path, out) ==
    Arranged(path, ScanLoop(ScanItems(files, path), out,
                            [raised |-> FALSE, cache |-> cache, entries |-> <<>>,
                             invoked |-> {}, nodata |-> {}]))

\* history of the scc invocations: the paths counted so far are the cached
\* ones and the ones scc gave no data for
RecountAfter(rc, cache, f, invoked) == rc \/ invoked \cap (DOMAIN cache \cup f) # {}

FailedAfter(f, invoked, nodata) == (f \ invoked) \cup nodata

----------------------------------------------------------------------------
(* The .ignore file: its content is a sequence of characters *)

NoFile == [exists |-> FALSE, data |-> <<>>]
File(data) == [exists |-> TRUE, data |-> data]

IsSpace(c) == c \in {" ", "\n", "\t"}

RECURSIVE lstrip(_)
lstrip(s) == IF s # <<>> /\ IsSpace(Head(s)) THEN lstrip(Tail(s)) ELSE s

RECURSIVE rstrip(_)
rstrip(s) == IF s # <<>> /\ IsSpace(s[Len(s)]) THEN rstrip(SubSeq(s, 1, Len(s) - 1)) ELSE s

\* str.strip()
strip(s) == rstrip(lstrip(s))

\* the length of the first line of data, terminator included
RECURSIVE LineEnd(_, _)
LineEnd(data, i) ==
    IF i >= Len(data) \/ data[i] = "\n" THEN i ELSE LineEnd(data, i + 1)

\* f.readlines(): the lines, each with its terminator
RECURSIVE readlines(_)
readlines(data) ==
    IF data = <<>> THEN <<>>
    ELSE <<SubSeq(data, 1, LineEnd(data, 1))>>
             \o readlines(SubSeq(data, LineEnd(data, 1) + 1, Len(data)))

StrippedLines(lines) == {strip(lines[i]) : i \in 1..Len(lines)}

\* existing_entries = [line.strip() for line in f.readlines()]
existing_entries(data) == StrippedLines(readlines(data))

IsRejected_OnlyParent(item_name) == item_name = DotDot

\* the first test of add_to_ignore_file
IsRejected(item_name) == item_name \in {Dot, DotDot}

\* the test for an item that is already listed
AlreadyListed(file, item_name) ==
    file.exists /\ item_name \in existing_entries(file.data)

\* the writes of the 'a+' block
AppendItem(data, item_name) ==
    (IF Len(data) > 0 /\ data[Len(data)] # "\n" THEN data \o <<"\n">> ELSE data)
        \o item_name \o <<"\n">>

\* the returned messages, by their wording (the item they quote is left out)
NoMessage == ""
CannotAdd(item_name) == "Cannot add to .ignore file"
AlreadyIn(item_name) == "is already in .ignore file"
Added(item_name) == "Added to .ignore file"

\* does add_to_ignore_file reach the 'a+' block
ReachesWrite(files, path, item_name) ==
    ~IsRejected(item_name) /\ ~AlreadyListed(files[path], item_name)

\* add_to_ignore_file.  io is what the filesystem does to open(): "ok",
\* "read_error" (the 'r' open raises), "write_error" (the 'a+' open raises)
\* add_to_ignore_file returning or raising before it has written
Unwritten(cache, files, old_entries, raised, msg) ==
    [raised |-> raised, message |-> msg, cache |-> cache, files |-> files,
     entries |-> old_entries, invoked |-> {}, nodata |-> {}, cleared |-> FALSE]

\* the end of add_to_ignore_file: the cache is emptied and scan is the rescan
Rescanned(written, item_name, scan) ==
    [raised |-> scan.raised, message |-> Added(item_name),
     cache |-> scan.cache, files |-> written, entries |-> scan.entries,
     invoked |-> scan.invoked, nodata |-> scan.nodata, cleared |-> TRUE]

ClearedCache_Kept(cache) == cache

\* "self.stats_cache = {}"
ClearedCache(cache) == EmptyCache

Written(cache, written, path, item_name, out) ==
    Rescanned(written, item_name,
              scan_directory(ClearedCache(cache), written, path, out))

add_to_ignore_file(cache, files, path, old_entries, item_name, io, out) ==
    IF IsRejected(item_name)
    THEN Unwritten(cache, files, old_entries, FALSE, CannotAdd(item_name))
    ELSE IF files[path].exists /\ io = "read_error"
    THEN Unwritten(cache, files, old_entries, TRUE, NoMessage)
    ELSE IF AlreadyListed(files[path], item_name)
    THEN Unwritten(cache, files, old_entries, FALSE, AlreadyIn(item_name))
    ELSE IF io = "write_error"
    THEN Unwritten(cache, files, old_entries, TRUE, NoMessage)
    ELSE Written(cache, [files EXCEPT ![path] = File(AppendItem(files[path].data, item_name))],
                 path, item_name, out)

----------------------------------------------------------------------------
(* run(): the event loop.  One action is one cycle of the while loop: the  *)
(* render, which reads the terminal height h and counts the status         *)
(* timeout down, then the handler of the key that getch() returns.         *)

MaxHeight == 6
Heights == 5..MaxHeight          \* terminal heights the loop observes (one row or more for entries)

StatusCycles == 30               \* status_timeout = 30

IoResults == {"ok", "read_error", "write_error"}

\* rows left for entries: self.entries[scroll : scroll + height - 4]
ViewportRows(h) == h - 4

TimeoutAfterRender_Stuck(msg, t) == t

\* "if status_message and status_timeout > 0: status_timeout -= 1"
TimeoutAfterRender(msg, t) == IF msg # NoMessage /\ t > 0 THEN t - 1 ELSE t

\* the top of a cycle: the height is read and the status line is painted
Render(h) ==
    /\ pc = "loop"
    /\ height' = h

Painted == status_timeout' = TimeoutAfterRender(status_message, status_timeout)

CanMoveUp_AtTop(sel) == sel >= 0

\* the guards of the KEY_UP and KEY_DOWN branches
CanMoveUp(sel) == sel > 0

CanMoveDown_OffByOne(sel, n) == sel < n

CanMoveDown(sel, n) == sel < n - 1

\* the scroll adjustments of the two branches
ScrollAfterUp(sel, scroll) == IF sel < scroll THEN sel ELSE scroll
ScrollAfterDown_OffByOne(sel, scroll, h) ==
    IF sel >= scroll + h - 4 THEN sel - (h - 4) ELSE scroll

ScrollAfterDown(sel, scroll, h) ==
    IF sel >= scroll + h - 4 THEN sel - (h - 5) ELSE scroll

PathAfterEnter_NoDirCheck(path, name) ==
    IF name = DotDot THEN Parent(path) ELSE Join(path, name)

PathAfterEnter_IgnoresParent(path, name) ==
    IF IsDir(Join(path, name)) THEN Join(path, name) ELSE path

\* the path the Enter branch scans
PathAfterEnter(path, name) ==
    IF name = DotDot THEN Parent(path)
    ELSE IF IsDir(Join(path, name)) THEN Join(path, name)
    ELSE path

SelectionAfterEnter_Kept(sel, scroll) ==
    [selected_index |-> sel, scroll_position |-> scroll]

\* the selection after the Enter branch has scanned
SelectionAfterEnter(sel, scroll) == [selected_index |-> 0, scroll_position |-> 0]

\* the selection after the 'i' branch
SelectionAfterIgnore(sel, scroll) == [selected_index |-> sel, scroll_position |-> scroll]

StartScan(out) ==
    /\ pc = "start"
    /\ \E scan \in {scan_directory(stats_cache, ignore_files, current_path, out)} :
          /\ stats_cache' = scan.cache
          /\ entries' = scan.entries
          /\ recount' = RecountAfter(recount, stats_cache, failed, scan.invoked)
          /\ failed' = FailedAfter(failed, scan.invoked, scan.nodata)
          /\ pc' = IF scan.raised THEN "crashed" ELSE "loop"
    /\ status_message' = NoMessage
    /\ status_timeout' = 0
    /\ UNCHANGED <<current_path, scroll_position, selected_index, height, ignore_files>>

KeyQuit(h) ==
    /\ Render(h)
    /\ Painted
    /\ pc' = "done"
    /\ UNCHANGED <<stats_cache, current_path, scroll_position, selected_index, entries,
                   status_message, ignore_files, failed, recount>>

KeyOther_ResetsSelection(h) ==
    /\ Render(h)
    /\ Painted
    /\ selected_index' = 0
    /\ scroll_position' = 0
    /\ UNCHANGED <<stats_cache, current_path, entries, status_message, pc,
                   ignore_files, failed, recount>>

\* a key that no branch of the elif chain matches
KeyOther(h) ==
    /\ Render(h)
    /\ Painted
    /\ UNCHANGED <<stats_cache, current_path, scroll_position, selected_index, entries,
                   status_message, pc, ignore_files, failed, recount>>

KeyUp(h) ==
    /\ Render(h)
    /\ Painted
    /\ IF CanMoveUp(selected_index)
       THEN /\ selected_index' = selected_index - 1
            /\ scroll_position' = ScrollAfterUp(selected_index - 1, scroll_position)
       ELSE UNCHANGED <<selected_index, scroll_position>>
    /\ UNCHANGED <<stats_cache, current_path, entries, status_message, pc,
                   ignore_files, failed, recount>>

KeyDown(h) ==
    /\ Render(h)
    /\ Painted
    /\ IF CanMoveDown(selected_index, Len(entries))
       THEN /\ selected_index' = selected_index + 1
            /\ scroll_position' = ScrollAfterDown(selected_index + 1, scroll_position, h)
       ELSE UNCHANGED <<selected_index, scroll_position>>
    /\ UNCHANGED <<stats_cache, current_path, entries, status_message, pc,
                   ignore_files, failed, recount>>

KeyEnter(h, out) ==
    /\ Render(h)
    /\ Painted
    /\ IF selected_index < Len(entries)
       THEN \E new_path \in {PathAfterEnter(current_path, entries[selected_index + 1].name)} :
            \E scan \in {scan_directory(stats_cache, ignore_files, new_path, out)} :
            \E after \in {SelectionAfterEnter(selected_index, scroll_position)} :
               /\ current_path' = new_path
               /\ stats_cache' = scan.cache
               /\ entries' = scan.entries
               /\ recount' = RecountAfter(recount, stats_cache, failed, scan.invoked)
               /\ failed' = FailedAfter(failed, scan.invoked, scan.nodata)
               /\ IF scan.raised
                  THEN /\ pc' = "crashed"
                       /\ UNCHANGED <<selected_index, scroll_position>>
                  ELSE /\ pc' = "loop"
                       /\ selected_index' = after.selected_index
                       /\ scroll_position' = after.scroll_position
       ELSE UNCHANGED <<current_path, stats_cache, entries, failed, recount, pc,
                        selected_index, scroll_position>>
    /\ UNCHANGED <<status_message, ignore_files>>

\* the lines of the file at path after item_name is appended
LinesAfterAppend(files, path, item_name) ==
    Len(readlines(AppendItem(files[path].data, item_name)))

KeyIgnore(h, io, out) ==
    /\ Render(h)
    /\ IF selected_index < Len(entries)
       THEN \E name \in {entries[selected_index + 1].name} :
            \E r \in {add_to_ignore_file(stats_cache, ignore_files, current_path,
                                        entries, name, io, out)} :
            \E after \in {SelectionAfterIgnore(selected_index, scroll_position)} :
               /\ (ReachesWrite(ignore_files, current_path, name)
                      => LinesAfterAppend(ignore_files, current_path, name) <= MaxIgnoreLines)
               /\ stats_cache' = r.cache
               /\ ignore_files' = r.files
               /\ entries' = r.entries
               /\ recount' = IF r.cleared THEN FALSE ELSE recount
               /\ failed' = IF r.cleared THEN r.nodata ELSE failed
               /\ selected_index' = after.selected_index
               /\ scroll_position' = after.scroll_position
               /\ IF r.raised
                  THEN /\ pc' = "crashed"
                       /\ Painted
                       /\ UNCHANGED status_message
                  ELSE /\ pc' = "loop"
                       /\ status_message' = r.message
                       /\ status_timeout' = StatusCycles
       ELSE /\ Painted
            /\ UNCHANGED <<stats_cache, ignore_files, entries, failed, recount,
                           selected_index, scroll_position, pc, status_message>>
    /\ UNCHANGED current_path

----------------------------------------------------------------------------
(* The program from its start in some directory *)

\* no .ignore anywhere; one in the root that lists a and has no final
\* newline; an empty one in a
InitialFiles ==
    {[d \in Dirs |-> NoFile],
     [d \in Dirs |-> IF d = Root THEN File(NameA) ELSE NoFile],
     [d \in Dirs |-> IF d = DirA THEN File(<<>>) ELSE NoFile]}

Init ==
    /\ stats_cache = EmptyCache
    /\ current_path \in Dirs
    /\ scroll_position = 0
    /\ selected_index = 0
    /\ entries = <<>>
    /\ status_message = NoMessage
    /\ status_timeout = 0
    /\ height \in Heights
    /\ pc = "start"
    /\ ignore_files \in InitialFiles
    /\ failed = {}
    /\ recount = FALSE

Outcomes == {ToolMissing, NonZeroExit, EmptyOutput, Malformed, JsonNone, JsonOne, JsonTwo}

\* the results of scc for the paths a scan of path would run it on
Outs(cache, files, path, results) == [ScanPaths(files, path) \ DOMAIN cache -> results]

\* the selected entry's name, when the selection is inside the list
HasSelection == pc = "loop" /\ selected_index < Len(entries)
SelectedName == entries[selected_index + 1].name

EnterOuts(results) ==
    IF HasSelection
    THEN Outs(stats_cache, ignore_files, PathAfterEnter(current_path, SelectedName), results)
    ELSE {EmptyCache}

IgnoreOuts(results) ==
    IF HasSelection /\ ReachesWrite(ignore_files, current_path, SelectedName)
    THEN Outs(EmptyCache, [ignore_files EXCEPT ![current_path] = File(<<>>)],
              current_path, results)
    ELSE {EmptyCache}

----------------------------------------------------------------------------
(* Spec: every key and every result of open(), in a terminal of constant   *)
(* height; scc either cannot be started or reports the same two languages. *)

KeyOutcomes == {ToolMissing, JsonTwo}

Start == \E out \in Outs(stats_cache, ignore_files, current_path, KeyOutcomes) : StartScan(out)
Up == KeyUp(MaxHeight)
Down == KeyDown(MaxHeight)
Enter == \E out \in EnterOuts(KeyOutcomes) : KeyEnter(MaxHeight, out)
Ignore ==
    \E io \in IoResults : \E out \in IgnoreOuts(KeyOutcomes) :
        KeyIgnore(MaxHeight, io, out)
Other == KeyOther(MaxHeight)
Quit == KeyQuit(MaxHeight)

Next == Start \/ Up \/ Down \/ Enter \/ Ignore \/ Other \/ Quit

InitFixed == Init /\ height = MaxHeight

Spec == InitFixed /\ [][Next]_vars

----------------------------------------------------------------------------
(* SpecNav: the keys that leave the .ignore file alone, in a terminal      *)
(* whose height changes between cycles.                                    *)

NavStart ==
    \E out \in Outs(stats_cache, ignore_files, current_path, KeyOutcomes) : StartScan(out)
NavUp == \E h \in Heights : KeyUp(h)
NavDown == \E h \in Heights : KeyDown(h)
NavEnter == \E h \in Heights : \E out \in EnterOuts(KeyOutcomes) : KeyEnter(h, out)
NavOther == \E h \in Heights : KeyOther(h)
NavQuit == \E h \in Heights : KeyQuit(h)

NextNav == NavStart \/ NavUp \/ NavDown \/ NavEnter \/ NavOther \/ NavQuit

SpecNav == Init /\ [][NextNav]_vars

----------------------------------------------------------------------------
(* SpecScc: every result of scc, under the keys that leave the .ignore     *)
(* file alone and a terminal of constant height.                           *)

SccStart == \E out \in Outs(stats_cache, ignore_files, current_path, Outcomes) : StartScan(out)
SccUp == KeyUp(MaxHeight)
SccDown == KeyDown(MaxHeight)
SccEnter == \E out \in EnterOuts(Outcomes) : KeyEnter(MaxHeight, out)
SccOther == KeyOther(MaxHeight)
SccQuit == KeyQuit(MaxHeight)

NextScc == SccStart \/ SccUp \/ SccDown \/ SccEnter \/ SccOther \/ SccQuit

SpecScc == InitFixed /\ [][NextScc]_vars

----------------------------------------------------------------------------
(* Properties *)

Running == pc \in {"loop", "done"}

\* C1: while no add-to-ignore succeeds, scc is run at most once for each
\* path, whatever it returns for that path
C1_CountedOncePerPath == ~recount

\* C2: a path that scc failed on or gave no data for is afterwards cached
\* with the zero FileStats
C2_FailureCachedAsZero ==
    \A p \in failed : p \in DOMAIN stats_cache /\ stats_cache[p] = ZeroStats

\* C3: no counting failure (tool missing, non-zero exit, malformed output)
\* ends the event loop with an error
C3_CountingNeverCrashes == pc # "crashed"

\* C4: after the initial scan, under every sequence of keys, the selection
\* is an index of entries: 0 <= selected_index <= len(entries) - 1
C4_SelectionInBounds ==
    Running => 0 <= selected_index /\ selected_index <= Len(entries) - 1

\* the last entry is selected right after an add-to-ignore has rescanned
C4_Witness ==
    /\ pc = "loop"
    /\ status_message = Added(NameB)
    /\ status_timeout = StatusCycles
    /\ selected_index > 0
    /\ selected_index = Len(entries) - 1

\* C5: the selected row is inside the viewport of the current terminal
\* height: scroll_position <= selected_index < scroll_position + height - 4
C5_SelectedRowVisible ==
    Running => /\ scroll_position <= selected_index
               /\ selected_index < scroll_position + ViewportRows(height)

\* a step of the loop that scans: the initial scan, Enter, a successful 'i'
ScanStep == Start \/ Enter \/ (Ignore /\ status_message' = Added(SelectedName))

\* C6: after every scan (initial, Enter, the rescan of a successful
\* add-to-ignore) the next key sees selected_index = 0 and scroll_position = 0
C6_SelectionResetAfterScan ==
    [][(ScanStep /\ pc' = "loop") => (selected_index' = 0 /\ scroll_position' = 0)]_vars

\* C7: "." is the first entry in the root and the second, right after "..",
\* in every other directory
C7_DotPrecedesChildren ==
    Running => IF current_path = Root
               THEN entries[1].name = Dot
               ELSE entries[1].name = DotDot /\ entries[2].name = Dot

\* the children among the entries, and their place in the order of os.scandir
IsChild(e) == e.name \notin {Dot, DotDot}
ScanPos(name) ==
    CHOOSE i \in 1..Len(ScanDir(ignore_files, current_path)) :
        ScanDir(ignore_files, current_path)[i] = name

\* C8: the children are listed by code_lines, largest first, and children
\* with equal code_lines keep the order os.scandir returned them in
C8_ChildrenSortedStable ==
    Running =>
        \A i, j \in 1..Len(entries) :
            (i < j /\ IsChild(entries[i]) /\ IsChild(entries[j])) =>
                /\ entries[i].stats.code_lines >= entries[j].stats.code_lines
                /\ (entries[i].stats.code_lines = entries[j].stats.code_lines
                        => ScanPos(entries[i].name) < ScanPos(entries[j].name))

\* the sort has moved a child forward, and two children are tied
C8_Witness ==
    /\ pc = "loop"
    /\ \E i, j \in 1..Len(entries) :
          /\ i < j /\ IsChild(entries[i]) /\ IsChild(entries[j])
          /\ ScanPos(entries[i].name) > ScanPos(entries[j].name)
    /\ \E i, j \in 1..Len(entries) :
          /\ i < j /\ IsChild(entries[i]) /\ IsChild(entries[j])
          /\ entries[i].stats.code_lines = entries[j].stats.code_lines

\* C9: 'i' on "." or ".." gives the "cannot add" message and changes neither
\* the .ignore file nor the cache nor the entries, and runs no scan
C9_DotsRejected ==
    [][(HasSelection /\ SelectedName \in {Dot, DotDot} /\ Ignore) =>
          /\ status_message' = CannotAdd(SelectedName)
          /\ UNCHANGED <<ignore_files, stats_cache, entries, failed, recount>>]_vars

\* ".." is selected and has just been refused
C9_Witness ==
    /\ pc = "loop"
    /\ SelectedName = DotDot
    /\ status_message = CannotAdd(DotDot)
    /\ status_timeout = StatusCycles
    /\ ~ignore_files[current_path].exists

\* the lines of a file without their terminators
Unterminated(line) ==
    IF line[Len(line)] = "\n" THEN SubSeq(line, 1, Len(line) - 1) ELSE line
LinesOf(lines) == {Unterminated(lines[i]) : i \in 1..Len(lines)}
VerbatimLines(data) == LinesOf(readlines(data))

\* C10: 'i' on a name (not "." or "..") that is already a line of the
\* directory's .ignore file returns "already in", writes nothing and keeps
\* the cache
C10_SecondAddAlreadyPresent ==
    [][(/\ Ignore
        /\ pc' = "loop"
        /\ SelectedName \notin {Dot, DotDot}
        /\ SelectedName \in VerbatimLines(ignore_files[current_path].data)) =>
          /\ status_message' = AlreadyIn(SelectedName)
          /\ UNCHANGED <<ignore_files, stats_cache>>]_vars

\* the direct children of the current directory, its .ignore file included
Children ==
    {StaticChildren(current_path)[i] : i \in 1..Len(StaticChildren(current_path))}
        \cup (IF ignore_files[current_path].exists THEN {IgnoreName} ELSE {})
ChildPaths == {Append(current_path, n) : n \in Children}
NamesOf(list) == {list[i].name : i \in 1..Len(list)}

\* a step that has written a .ignore file: no key but 'i' does
AddedStep == ignore_files' # ignore_files

\* C11: a successful add-to-ignore empties the cache: afterwards it holds
\* only paths that the rescan of current_path has counted, and the entries
\* are those of the directory with the written .ignore file in it
C11_AddDropsWholeCache ==
    [][AddedStep =>
          /\ DOMAIN stats_cache' \subseteq {current_path'} \cup ChildPaths'
          /\ ~recount'
          /\ pc' = "loop" =>
                /\ IgnoreName \in NamesOf(entries')
                /\ NamesOf(entries') \ {Dot, DotDot} = Children'
                /\ \A i \in 1..Len(entries') :
                      IsChild(entries'[i]) =>
                          entries'[i].stats =
                              stats_cache'[Append(current_path', entries'[i].name)]]_vars

\* an add in the root after a has been scanned (a's own .ignore was written
\* by an earlier add there): the path of a's .ignore is no longer cached
C11_Witness ==
    /\ pc = "loop"
    /\ current_path = Root
    /\ status_message = Added(NameB)
    /\ status_timeout = StatusCycles
    /\ ignore_files[DirA].data # <<>>
    /\ Append(DirA, IgnoreName) \notin DOMAIN stats_cache

\* open() raises in this 'i' step: the read of an existing .ignore file, or
\* the 'a+' open for an item that is not yet listed
OpenFails(io) ==
    /\ HasSelection
    /\ ~IsRejected(SelectedName)
    /\ \/ io = "read_error" /\ ignore_files[current_path].exists
       \/ io = "write_error" /\ ~AlreadyListed(ignore_files[current_path], SelectedName)
    /\ \E out \in IgnoreOuts(KeyOutcomes) : KeyIgnore(MaxHeight, io, out)

\* C12: a failure to read or write the .ignore file becomes a status
\* message; the loop keeps running and cache, entries, current_path,
\* selected_index and scroll_position stay as they were
C12_IoFailureIsStatusMessage ==
    [][(OpenFails("read_error") \/ OpenFails("write_error")) =>
          /\ pc' = "loop"
          /\ status_message' # NoMessage
          /\ status_timeout' = StatusCycles
          /\ UNCHANGED <<stats_cache, entries, current_path,
                         selected_index, scroll_position>>]_vars

C14_MoveAtEdgeIsNoOp ==
    [][(\/ NavUp /\ selected_index = 0
        \/ NavDown /\ selected_index = Len(entries) - 1) =>
          UNCHANGED <<selected_index, scroll_position, entries,
                      current_path, stats_cache>>]_vars

\* the last entry of a scrolled list is selected
C14_Witness ==
    /\ pc = "loop"
    /\ selected_index = Len(entries) - 1
    /\ scroll_position > 0

\* C15: current_path is always an existing directory, never above the root
\* and never a plain file
C15_CurrentPathIsDirectory == current_path \in Dirs

\* the program is inside a after it has written the root's .ignore file
C15_Witness ==
    /\ pc = "loop"
    /\ current_path = DirA
    /\ NameB \in VerbatimLines(ignore_files[Root].data)

\* a cycle of a key other than 'i'
PlainCycle == Up \/ Down \/ Other \/ Quit \/ Enter

\* a cycle of 'i' that returned without writing
RefusedCycle ==
    /\ HasSelection
    /\ ~ReachesWrite(ignore_files, current_path, SelectedName)
    /\ pc' = "loop"
    /\ Ignore

\* the render of a cycle shows the message
Shown == status_message # NoMessage /\ status_timeout > 0

\* C16: 'i' sets a message that the next 30 renders show and no later render
\* does: every returned 'i' leaves a message with 30 cycles to go, every
\* other cycle keeps the message and takes one cycle off until none is left
C16_MessageShownThirtyCycles ==
    [][/\ (AddedStep /\ pc' = "loop") =>
              status_message' = Added(SelectedName) /\ status_timeout' = StatusCycles
       /\ RefusedCycle =>
              /\ status_message' \in {CannotAdd(SelectedName), AlreadyIn(SelectedName)}
              /\ status_timeout' = StatusCycles
       /\ PlainCycle =>
              /\ status_message' = status_message
              /\ status_timeout' = IF Shown THEN status_timeout - 1 ELSE 0
       /\ status_timeout' \in 0..StatusCycles
       /\ status_timeout' > 0 => status_message' # NoMessage]_vars

\* a message has been shown for its 30 cycles and is shown no more
C16_Witness ==
    /\ pc = "loop"
    /\ status_message = AlreadyIn(NameA)
    /\ status_timeout = 0

\* the names a listing of current_path holds
Listing ==
    {Dot} \cup (IF current_path # Root THEN {DotDot} ELSE {}) \cup Children

\* the selected entry is a directory below current_path
OnChildDir ==
    /\ HasSelection
    /\ SelectedName \notin {Dot, DotDot}
    /\ Append(current_path, SelectedName) \in Dirs

\* C17: Enter sets current_path from the selected entry alone, to the parent
\* on "..", to the child on a directory, to itself on "." and on a plain
\* file, and in each case entries become a scan of the resulting current_path
C17_ActivateFollowsSelection ==
    [][(HasSelection /\ Enter) =>
          /\ current_path' =
                IF SelectedName = DotDot THEN Parent(current_path)
                ELSE IF OnChildDir THEN Append(current_path, SelectedName)
                ELSE current_path
          /\ \E out \in Outs(stats_cache, ignore_files, current_path', KeyOutcomes) :
                entries' = scan_directory(stats_cache, ignore_files,
                                          current_path', out).entries
          /\ pc' = "loop" =>
                NamesOf(entries') = Listing' /\ Len(entries') = Cardinality(Listing')]_vars

\* the root is listed again after a has been visited: a's .ignore file is in
\* the cache, the rows of the root are as they were
C17_Witness ==
    /\ pc = "loop"
    /\ current_path = Root
    /\ selected_index = 0
    /\ Append(DirA, IgnoreName) \in DOMAIN stats_cache
    /\ ~ignore_files[Root].exists

\* C18: down from an entry that is not the last one adds exactly 1 to
\* selected_index; scroll_position becomes selected_index - viewport rows + 1
\* (viewport rows = height - 4) exactly when the new selected_index is at or
\* past scroll_position + viewport rows, and is unchanged otherwise; entries,
\* current_path and the cache are unchanged
C18_MoveDownScrolls ==
    [][(NavDown /\ selected_index < Len(entries) - 1) =>
          /\ selected_index' = selected_index + 1
          /\ scroll_position' =
                IF selected_index' >= scroll_position + ViewportRows(height')
                THEN selected_index' - ViewportRows(height') + 1
                ELSE scroll_position
          /\ UNCHANGED <<entries, current_path, stats_cache>>]_vars

\* the selection sits on the last row of a scrolled viewport of two rows
C18_Witness ==
    /\ pc = "loop"
    /\ scroll_position > 0
    /\ ViewportRows(height) = 2
    /\ selected_index = scroll_position + 1

\* C19: once the initial scan is done, entries is non-empty and holds exactly
\* one ".", one ".." exactly when current_path is not the root, and one entry
\* for each direct child of current_path, a written .ignore file included
C19_EntriesAreTheListing ==
    Running =>
        /\ entries # <<>>
        /\ NamesOf(entries) = Listing
        /\ Len(entries) = Cardinality(Listing)
        /\ (DotDot \in NamesOf(entries)) = (current_path # Root)

\* the root lists the .ignore file that an 'i' on " b" has created
C19_Witness ==
    /\ pc = "loop"
    /\ current_path = Root
    /\ Len(entries) = 4
    /\ ignore_files[Root].data = NameB \o <<"\n">>

\* C20: Enter on a child directory moves into it with the selection on index
\* 0, which is its ".." entry, and Enter on that entry moves back to the
\* directory it came from and shows a scan of it
C20_DescendAscendRoundTrip ==
    [][/\ (OnChildDir /\ Enter /\ pc' = "loop") =>
              /\ selected_index' = 0
              /\ entries'[1].name = DotDot
              /\ current_path' = Append(current_path, SelectedName)
              /\ Parent(current_path') = current_path
       /\ (HasSelection /\ selected_index = 0 /\ SelectedName = DotDot /\ Enter) =>
              /\ current_path' = Parent(current_path)
              /\ current_path' # current_path
              /\ \E out \in Outs(stats_cache, ignore_files, current_path', KeyOutcomes) :
                    entries' = scan_directory(stats_cache, ignore_files,
                                              current_path', out).entries
              /\ pc' = "loop" => NamesOf(entries') = Listing']_vars

\* back in the root two cycles after an 'i' there emptied the cache, with
\* a's .ignore file counted: the two cycles went into a and back
C20_Witness ==
    /\ pc = "loop"
    /\ current_path = Root
    /\ selected_index = 0
    /\ status_message = Added(NameB)
    /\ status_timeout = StatusCycles - 2
    /\ Append(DirA, IgnoreName) \in DOMAIN stats_cache

====
